---------------------------- MODULE Spec2Model ----------------------------
(***************************************************************************)
(* nirion: image version and digest resolution (nirion-oci-lib), the lock  *)
(* state (nirion-lib) and the concurrent lock update run (nirion-bin).     *)
(*                                                                         *)
(* Strings whose characters the code inspects (tags, versions) are         *)
(* sequences of one-character strings.  Option<T> is a sequence of length  *)
(* at most one: None is << >> and Some(x) is << x >>.                      *)
(***************************************************************************)
EXTENDS Integers, Sequences, FiniteSets, TLC

VARIABLES
    \* canonical version selection (nirion-oci-lib/src/version.rs)
    tags,       \* the input list of canonical_version_tag
    chosen,     \* its return value
    vpc,        \* "input" before the call, "done" after it
    \* resolution of one image (nirion-oci-lib/src/unified.rs, oci.rs)
    rimage,     \* Some(image string) for a full resolution, else None
    prev,       \* Some(previous VersionedImage) for the update variant
    world,      \* what the registry answers for the image's repository
    res,        \* the Result the call returned
    calls,      \* how many registry calls and label reads the call made
    rpc,        \* "input" before the call, "done" after it
    \* an update run (nirion-bin/src/lock.rs)
    jobs,               \* the jobs argument: the semaphore's size
    images,             \* service -> declared image string, the run's image map
    locked_images,      \* the lock state loaded before the run
    liveDigest,         \* image reference -> the digest the registry serves
    upc,                \* update_images: "start", "joining" or "done"
    outcome,            \* what update_images returned or printed
    task,               \* service -> where its resolution task stands
    permit,             \* the services whose task holds a semaphore permit
    permits,            \* the permits left in the semaphore
    output,             \* service -> the Result its finished task returned
    digest_cache,       \* the run's cache: key string -> VersionedImage
    new_locked_images,  \* the lock state being merged
    lock_file,          \* the lock state the lock file holds
    writes,             \* how often the lock file was written
    cache_writes,       \* cache key -> how often the run inserted it
    stuck,              \* Some(service) whose registry call never returns
    cache_readers,      \* the services whose task holds a read guard of the cache
    cache_writers,      \* the services whose task holds the write guard
    \* the lock state (nirion-lib/src/lock.rs)
    lockOld,    \* the lock state `self` of diff, and the one that is saved
    lockNew,    \* the lock state `other` of diff
    diffs,      \* the Vec<DiffEntry> diff returned
    document,   \* the JSON document of the lock file
    loaded,     \* the Result of deserializing the document
    lpc,        \* "states", "diffed", "saved", "reloaded"; "document", "loaded"
    \* the generic-OCI alias walk (nirion-oci-lib/src/oci.rs)
    repo,       \* the repository: whether listing works, its tags and digests
    target,     \* the digest whose alias tags are wanted
    walked,     \* what get_alias_oci_tags returned, with its call counts
    wpc,        \* "input" before the call, "done" after it
    \* the paged tag listing (nirion-oci-lib/src/oci.rs, list_all_tags)
    registry_tags,  \* the tags the registry holds, in registry order
    all_tags,       \* the tags collected so far
    last,           \* the cursor of the next request: None or Some(tag)
    cursors,        \* the cursors of the requests sent so far, in order
    tag_list,       \* the Result list_all_tags returned
    ppc,            \* "paging" inside the loop, "done" after the return
    \* conversion of registry credentials (nirion-oci-lib/src/auth.rs)
    oci_auth,   \* the credential of the OCI client that is converted
    lib_auth,   \* from_oci_auth of it: the library's RegistryAuth
    oci_back,   \* to_oci_auth of that: an OCI client credential again
    apc         \* "input", "converted" after from_oci_auth, "back" after to_oci_auth

versionVars == <<tags, chosen, vpc>>

resolveVars == <<rimage, prev, world, res, calls, rpc>>

runVars ==
    <<jobs, images, locked_images, liveDigest, upc, outcome, task, permit,
      permits, output, digest_cache, new_locked_images, lock_file, writes,
      cache_writes, stuck, cache_readers, cache_writers>>

lockVars == <<lockOld, lockNew, diffs, document, loaded, lpc>>

walkVars == <<repo, target, walked, wpc>>

listVars == <<registry_tags, all_tags, last, cursors, tag_list, ppc>>

authVars == <<oci_auth, lib_auth, oci_back, apc>>

vars ==
    <<tags, chosen, vpc, rimage, prev, world, res, calls, rpc,
      jobs, images, locked_images, liveDigest, upc, outcome, task, permit,
      permits, output, digest_cache, new_locked_images, lock_file, writes,
      cache_writes, stuck, cache_readers, cache_writers,
      lockOld, lockNew, diffs, document, loaded, lpc,
      repo, target, walked, wpc,
      registry_tags, all_tags, last, cursors, tag_list, ppc,
      oci_auth, lib_auth, oci_back, apc>>

-----------------------------------------------------------------------------
(* Option<T> *)

None == <<>>

Some(x) == <<x>>

IsSome(o) == Len(o) = 1

Unwrap(o) == o[1]

-----------------------------------------------------------------------------
(* Bounds of the model *)

\* longest tag list handed to canonical_version_tag
MaxTags == 2

\* most tags a repository of the modelled registry holds
MaxRepoTags == 2

\* largest value of the jobs argument
MaxJobs == 2

\* most tags the registry of the paged listing holds
MaxRegistryTags == 205

\* most tags of the repository the alias walk is run against
MaxWalkTags == 3

-----------------------------------------------------------------------------
(* Character-level string helpers (core::str) *)

Digits == {"0","1","2","3","4","5","6","7","8","9"}

Letters ==
    {"a","b","c","d","e","f","g","h","i","j","k","l","m",
     "n","o","p","q","r","s","t","u","v","w","x","y","z"}

\* position of the first occurrence of character c in s, 0 when absent
IndexOf(s, c) ==
    IF \E i \in 1..Len(s) : s[i] = c
    THEN CHOOSE i \in 1..Len(s) : s[i] = c /\ \A j \in 1..(i-1) : s[j] # c
    ELSE 0

\* str::split(c): the pieces between occurrences of c (never empty as a list)
RECURSIVE Split(_, _)
Split(s, c) ==
    LET i == IndexOf(s, c)
    IN  IF i = 0 THEN <<s>>
        ELSE <<SubSeq(s, 1, i-1)>> \o Split(SubSeq(s, i+1, Len(s)), c)

\* str::trim: the part from the first to the last non-blank character
Trim(s) ==
    LET solid == {i \in 1..Len(s) : s[i] # " "}
    IN  IF solid = {} THEN <<>>
        ELSE SubSeq(s, CHOOSE i \in solid : \A j \in solid : i <= j,
                       CHOOSE i \in solid : \A j \in solid : j <= i)

\* str::strip_prefix: Some(rest) when s starts with p
StripPrefix(s, p) ==
    IF Len(p) <= Len(s) /\ SubSeq(s, 1, Len(p)) = p
    THEN Some(SubSeq(s, Len(p)+1, Len(s)))
    ELSE None

\* str::strip_suffix: Some(rest) when s ends with p
StripSuffix(s, p) ==
    IF Len(p) <= Len(s) /\ SubSeq(s, Len(s)-Len(p)+1, Len(s)) = p
    THEN Some(SubSeq(s, 1, Len(s)-Len(p)))
    ELSE None

-----------------------------------------------------------------------------
(* Tag classifier (version.rs) *)

NON_VERSION_TAGS ==
    { <<"l","a","t","e","s","t">>,
      <<"s","t","a","b","l","e">>,
      <<"n","i","g","h","t","l","y">>,
      <<"b","e","t","a">>,
      <<"e","d","g","e">>,
      <<"d","e","v">>,
      <<"m","a","i","n">>,
      <<"m","a","s","t","e","r">>,
      <<"c","u","r","r","e","n","t">>,
      <<"n","e","x","t">>,
      <<"s","n","a","p","s","h","o","t">>,
      <<"p","r","e","v","i","e","w">>,
      <<"e","x","p","e","r","i","m","e","n","t","a","l">>,
      <<"p","r","o","d","u","c","t","i","o","n">>,
      <<"m","a","i","n","l","i","n","e">>,
      <<"a","m","d","6","4">>,
      <<"x","8","6","_","6","4">>,
      <<"3","8","6">>,
      <<"i","3","8","6">>,
      <<"a","r","m","6","4">>,
      <<"a","a","r","c","h","6","4">>,
      <<"a","r","m">>,
      <<"a","r","m","v","6">>,
      <<"a","r","m","v","7">>,
      <<"p","p","c","6","4","l","e">>,
      <<"s","3","9","0","x">>,
      <<"r","i","s","c","v","6","4">> }

TAG_PREFIXES ==
    << <<"r","e","f","s","/","t","a","g","s","/","v","e","r","s","i","o","n","/">>,
       <<"r","e","f","s","/","t","a","g","s","/">> >>

TAG_SUFFIXES ==
    << <<"-","b","o","o","k","w","o","r","m">>,
       <<"-","b","u","l","l","s","e","y","e">>,
       <<"-","b","u","s","t","e","r">>,
       <<"-","s","t","r","e","t","c","h">>,
       <<"-","j","e","s","s","i","e">>,
       <<"-","w","h","e","e","z","y">>,
       <<"-","t","r","i","x","i","e">>,
       <<"-","s","i","d">> >>

\* find_map over the tokens in order: the first strip that leaves a non-empty
\* remainder wins, otherwise the tag is returned unmodified
RECURSIVE strip_any_tag_prefix(_, _)
strip_any_tag_prefix(s, prefixes) ==
    IF prefixes = <<>> THEN s
    ELSE LET t == StripPrefix(s, Head(prefixes))
         IN  IF IsSome(t) /\ Unwrap(t) # <<>> THEN Unwrap(t)
             ELSE strip_any_tag_prefix(s, Tail(prefixes))

RECURSIVE strip_any_tag_suffix(_, _)
strip_any_tag_suffix(s, suffixes) ==
    IF suffixes = <<>> THEN s
    ELSE LET t == StripSuffix(s, Head(suffixes))
         IN  IF IsSome(t) /\ Unwrap(t) # <<>> THEN Unwrap(t)
             ELSE strip_any_tag_suffix(s, Tail(suffixes))

clean_tag(tag) ==
    strip_any_tag_suffix(strip_any_tag_prefix(Trim(tag), TAG_PREFIXES),
                         TAG_SUFFIXES)

-----------------------------------------------------------------------------
(* Canonical version scorer (version.rs) *)

\* tag.split('-').next()
version_prefix(tag) == Head(Split(tag, "-"))

\* tag.split_once('-').map(|(_, s)| s)
suffix(tag) ==
    LET i == IndexOf(tag, "-")
    IN  IF i = 0 THEN None ELSE Some(SubSeq(tag, i+1, Len(tag)))

\* a semver numeric identifier: digits, no leading zero
IsNumericIdent(p) ==
    /\ p # <<>>
    /\ \A i \in 1..Len(p) : p[i] \in Digits
    /\ (Len(p) > 1 => p[1] # "0")

\* a semver build identifier: non-empty, alphanumeric
IsBuildIdent(p) ==
    /\ p # <<>>
    /\ \A i \in 1..Len(p) : p[i] \in Digits \cup Letters

\* semver::Version::parse succeeds: MAJOR.MINOR.PATCH, optionally +build
\* (the argument holds no '-', so there is never a pre-release part)
SemverParses(s) ==
    LET plus  == IndexOf(s, "+")
        core  == IF plus = 0 THEN s ELSE SubSeq(s, 1, plus-1)
        build == IF plus = 0 THEN <<>> ELSE SubSeq(s, plus+1, Len(s))
        nums  == Split(core, ".")
        ids   == Split(build, ".")
    IN  /\ Len(nums) = 3
        /\ \A i \in 1..3 : IsNumericIdent(nums[i])
        /\ (plus # 0 => \A i \in 1..Len(ids) : IsBuildIdent(ids[i]))

\* parse_semver(tag).is_some()
parse_semver(tag) == SemverParses(version_prefix(tag))

normalized_version_prefix(tag) ==
    LET prefix == version_prefix(tag)
        t      == StripPrefix(prefix, <<"v">>)
    IN  IF IsSome(t) THEN Unwrap(t) ELSE prefix

\* the number of dot-separated pieces made of ASCII digits only
\* (chars().all() is true of an empty piece)
version_depth(tag) ==
    LET parts == Split(normalized_version_prefix(tag), ".")
    IN  Cardinality({i \in 1..Len(parts) :
                        \A k \in 1..Len(parts[i]) : parts[i][k] \in Digits})

canonical_version_score(tag) ==
    IF tag \in NON_VERSION_TAGS THEN -1000
    ELSE (IF parse_semver(tag) THEN 50 ELSE 0)
         + version_depth(tag) * 10
         + (IF IsSome(suffix(tag)) THEN 5 ELSE 0)
         + (IF IsSome(suffix(tag))
               /\ \E k \in 1..Len(Unwrap(suffix(tag))) :
                      Unwrap(suffix(tag))[k] \in Digits
            THEN 5 ELSE 0)

\* Iterator::filter
RECURSIVE FilterVersionTags(_)
FilterVersionTags(ts) ==
    IF ts = <<>> THEN <<>>
    ELSE (IF Head(ts) \in NON_VERSION_TAGS THEN <<>> ELSE <<Head(ts)>>)
         \o FilterVersionTags(Tail(ts))

\* Iterator::map(clean_tag)
CleanAll(ts) == [i \in 1..Len(ts) |-> clean_tag(ts[i])]

\* the fold of Iterator::max_by_key keeping the FIRST maximal element
RECURSIVE FoldFirstMax(_, _)
FoldFirstMax(best, rest) ==
    IF rest = <<>> THEN best
    ELSE FoldFirstMax(
            IF canonical_version_score(Head(rest))
                   > canonical_version_score(best)
            THEN Head(rest) ELSE best,
            Tail(rest))

\* Iterator::max_by_key folds left to right and replaces the running maximum
\* by every later element whose key is not smaller
RECURSIVE FoldMax(_, _)
FoldMax(best, rest) ==
    IF rest = <<>> THEN best
    ELSE FoldMax(
            IF canonical_version_score(Head(rest))
                   >= canonical_version_score(best)
            THEN Head(rest) ELSE best,
            Tail(rest))

\* max_by_key with the first maximal element kept
MaxByKeyFirst(ts) ==
    IF ts = <<>> THEN None ELSE Some(FoldFirstMax(Head(ts), Tail(ts)))

max_by_key(ts) ==
    IF ts = <<>> THEN None ELSE Some(FoldMax(Head(ts), Tail(ts)))

\* canonical_version_tag with a first-maximum tie-break
canonical_version_tag_first_max(ts) ==
    MaxByKeyFirst(CleanAll(FilterVersionTags(ts)))

canonical_version_tag(ts) == max_by_key(CleanAll(FilterVersionTags(ts)))


-----------------------------------------------------------------------------
(* Image references (oci_client::Reference, as the code uses it) *)

\* Reference::try_from / Reference::from_str on the image strings of the model:
\* a name without registry is completed to docker.io/library/<name>, and a
\* string with characters outside the reference grammar does not parse
ParseReference(image) ==
    CASE image = "nginx:alpine" ->
            Some([registry |-> "docker.io", repository |-> "library/nginx",
                  tag |-> "alpine"])
      [] image = "docker.io/library/nginx:alpine" ->
            Some([registry |-> "docker.io", repository |-> "library/nginx",
                  tag |-> "alpine"])
      [] image = "ghcr.io/acme/app:1" ->
            Some([registry |-> "ghcr.io", repository |-> "acme/app",
                  tag |-> "1"])
      [] OTHER -> None

\* Reference::to_string: registry/repository:tag
ReferenceToString(r) == r.registry \o "/" \o r.repository \o ":" \o r.tag

-----------------------------------------------------------------------------
(* The registry as one call sees it.  A world is                           *)
(*   pullOk   : pull_manifest_and_config succeeds                          *)
(*   digest   : the digest it returns                                      *)
(*   configOk : the config blob is well-formed JSON                        *)
(*   label    : config.config.labels["org.opencontainers.image.version"]   *)
(*   listOk   : the tag listing (list_tags, or the Docker Hub API) succeeds*)
(*   repoTags : the repository's tags in listing order, each with the      *)
(*              digest its manifest has for this platform (None: pulling   *)
(*              it fails, or Docker Hub lists no image of this platform)   *)
(***************************************************************************)

NoCalls == [pull |-> 0, label |-> 0, list |-> 0, tagpull |-> 0]

\* Result<_, anyhow::Error>
Err == [ok |-> FALSE]

OkVersion(version, digest) ==
    [ok |-> TRUE, version |-> version, digest |-> digest]

OkImage(image, version, digest) ==
    [ok |-> TRUE,
     value |-> [image |-> image, version |-> version, digest |-> digest]]

get_version_from_config(w) ==
    IF IsSome(w.label) /\ Unwrap(w.label) \notin NON_VERSION_TAGS
    THEN w.label ELSE None

\* [ok, tags, list, tagpull]: the Docker Hub listing filtered to the tags one
\* of whose images of this platform has the digest; no manifest is pulled
get_alias_dockerhub_tags(w, digest) ==
    IF ~w.listOk THEN [ok |-> FALSE, tags |-> <<>>, list |-> 1, tagpull |-> 0]
    ELSE [ok |-> TRUE,
          tags |-> LET keep == {i \in 1..Len(w.repoTags) :
                                   w.repoTags[i].digest = Some(digest)}
                       F[i \in 0..Len(w.repoTags)] ==
                           IF i = 0 THEN <<>>
                           ELSE IF i \in keep
                                THEN Append(F[i-1], w.repoTags[i].name)
                                ELSE F[i-1]
                   IN  F[Len(w.repoTags)],
          list |-> 1, tagpull |-> 0]

Reverse(s) == [i \in 1..Len(s) |-> s[Len(s) + 1 - i]]

\* second loop of get_alias_oci_tags: peek, pull the peeked tag's digest,
\* collect the tag and advance while the digest still matches; a failed pull
\* is returned by `?`.  Returns [ok, tags, list, tagpull]
RECURSIVE CollectRun(_, _, _, _)
CollectRun(ts, digest, pulls, candidates) ==
    IF ts = <<>>
    THEN [ok |-> TRUE, tags |-> candidates, list |-> 1, tagpull |-> pulls]
    ELSE IF Head(ts).digest = None
    THEN [ok |-> FALSE, tags |-> <<>>, list |-> 1, tagpull |-> pulls + 1]
    ELSE IF Head(ts).digest # Some(digest)
    THEN [ok |-> TRUE, tags |-> candidates, list |-> 1, tagpull |-> pulls + 1]
    ELSE CollectRun(Tail(ts), digest, pulls + 1,
                    Append(candidates, Head(ts).name))

\* first loop of get_alias_oci_tags: peek, pull the peeked tag's digest, stop
\* at the first match WITHOUT consuming it, else advance; the second loop
\* starts at the tag the first one stopped at
RECURSIVE SkipToMatch(_, _, _)
SkipToMatch(ts, digest, pulls) ==
    IF ts = <<>> THEN CollectRun(ts, digest, pulls, <<>>)
    ELSE IF Head(ts).digest = None
    THEN [ok |-> FALSE, tags |-> <<>>, list |-> 1, tagpull |-> pulls + 1]
    ELSE IF Head(ts).digest = Some(digest)
    THEN CollectRun(ts, digest, pulls + 1, <<>>)
    ELSE SkipToMatch(Tail(ts), digest, pulls + 1)

\* the complete tag list, or the listing's error
list_all_tags(w) ==
    IF w.listOk THEN [ok |-> TRUE, tags |-> w.repoTags]
    ELSE [ok |-> FALSE, tags |-> <<>>]

\* the walk over the tags in listing order, without .rev()
WalkTagsForward(listed, digest) ==
    IF ~listed.ok
    THEN [ok |-> FALSE, tags |-> <<>>, list |-> 1, tagpull |-> 0]
    ELSE SkipToMatch(listed.tags, digest, 0)

\* lines 32-67 of get_alias_oci_tags, given what list_all_tags returned
WalkTags(listed, digest) ==
    IF ~listed.ok
    THEN [ok |-> FALSE, tags |-> <<>>, list |-> 1, tagpull |-> 0]
    ELSE SkipToMatch(Reverse(listed.tags), digest, 0)

get_alias_oci_tags(w, digest) == WalkTags(list_all_tags(w), digest)

get_alias_tags(image, w, digest) ==
    IF image.registry = "docker.io"
    THEN get_alias_dockerhub_tags(w, digest)
    ELSE get_alias_oci_tags(w, digest)

\* the canonical version among alias tags, or the error of the alias scan:
\* [ok, version, list, tagpull]
VersionOfAlias(alias) ==
    [ok |-> alias.ok,
     version |-> IF alias.ok THEN canonical_version_tag(alias.tags) ELSE None,
     list |-> alias.list, tagpull |-> alias.tagpull]

\* the canonical version among the alias tags of the generic-OCI walk
get_version_from_oci_tags(w, digest) ==
    VersionOfAlias(get_alias_oci_tags(w, digest))

get_version_from_tags(image, w, digest) ==
    IF image.registry = "docker.io"
    THEN VersionOfAlias(get_alias_tags(image, w, digest))
    ELSE get_version_from_oci_tags(w, digest)

\* lines 56-61 and 109-115 of unified.rs, given what get_version_from_tags
\* returned: `?` returns its error, otherwise the version it found, if any,
\* goes with the digest
VersionFromTags(fromTags, digest) ==
    [result |-> IF fromTags.ok THEN OkVersion(fromTags.version, digest)
                ELSE Err,
     calls |-> [pull |-> 1, label |-> 1, list |-> fromTags.list,
                tagpull |-> fromTags.tagpull]]

\* the part after the pull with the alias-tag scan tried before the label
DeriveVersionTagsFirst(image, w) ==
    IF ~w.configOk
    THEN [result |-> Err, calls |-> [NoCalls EXCEPT !.pull = 1]]
    ELSE VersionFromTags(get_version_from_tags(image, w, w.digest), w.digest)

\* the part of both variants after the manifest and config were pulled
\* (lines 50-61 and 103-115): parse the config, read the label, fall back to
\* the tags.  Returns the Result and the calls made
DeriveVersion(image, w) ==
    IF ~w.configOk
    THEN [result |-> Err, calls |-> [NoCalls EXCEPT !.pull = 1]]
    ELSE IF IsSome(get_version_from_config(w))
    THEN [result |-> OkVersion(get_version_from_config(w), w.digest),
          calls |-> [NoCalls EXCEPT !.pull = 1, !.label = 1]]
    ELSE VersionFromTags(get_version_from_tags(image, w, w.digest), w.digest)

get_version_and_digest(image, w) ==
    IF ~w.pullOk
    THEN [result |-> Err, calls |-> [NoCalls EXCEPT !.pull = 1]]
    ELSE DeriveVersion(image, w)

\* VersionedImage { image, version, digest } of an Ok((version, digest))
ToVersionedImage(image, r) ==
    [result |-> IF r.result.ok
                THEN OkImage(image, r.result.version, r.result.digest)
                ELSE Err,
     calls |-> r.calls]

get_versioned_image(image, w) ==
    ToVersionedImage(ReferenceToString(image), get_version_and_digest(image, w))

\* the update variant without the unchanged-digest return of lines 96-101
get_updated_version_and_digest_no_short_circuit(versioned_image, w) ==
    IF ParseReference(versioned_image.image) = None
    THEN [result |-> Err, calls |-> NoCalls]
    ELSE get_version_and_digest(Unwrap(ParseReference(versioned_image.image)),
                                w)

get_updated_version_and_digest(versioned_image, w) ==
    IF ParseReference(versioned_image.image) = None
    THEN [result |-> Err, calls |-> NoCalls]
    ELSE IF ~w.pullOk
    THEN [result |-> Err, calls |-> [NoCalls EXCEPT !.pull = 1]]
    ELSE IF w.digest = versioned_image.digest
    THEN [result |-> OkVersion(versioned_image.version,
                               versioned_image.digest),
          calls |-> [NoCalls EXCEPT !.pull = 1]]
    ELSE DeriveVersion(Unwrap(ParseReference(versioned_image.image)), w)

get_updated_versioned_image(versioned_image, w) ==
    ToVersionedImage(versioned_image.image,
                     get_updated_version_and_digest(versioned_image, w))

-----------------------------------------------------------------------------
(* Specification of the version scorer: canonical_version_tag applied to   *)
(* every tag list of at most MaxTags tags of TagPool                       *)

TagPool ==
    { <<"l","a","t","e","s","t">>,
      <<"1",".","2">>,
      <<"1",".","2",".","3">>,
      <<"2",".","0",".","0">>,
      <<"v","1",".","2",".","3">>,
      <<"1",".","2",".","3","-","r","1">>,
      <<"1",".","2",".","3","-","b","o","o","k","w","o","r","m">>,
      <<"m","a","i","n","l","i","n","e","-","b","o","o","k","w","o","r","m">>,
      <<"r","e","f","s","/","t","a","g","s","/","l","a","t","e","s","t">>,
      <<"-","s","i","d">>,
      <<"r","e","f","s","/","t","a","g","s","/">>,
      <<"r","e","f","s","/","t","a","g","s","/","v","e","r","s","i","o","n","/">>,
      <<" ","1",".","2"," ">> }

TagLists == UNION {[1..n -> TagPool] : n \in 0..MaxTags}

\* the variables of the other specifications, at rest
ResolveIdle ==
    /\ rimage = None
    /\ prev = None
    /\ world = [pullOk |-> FALSE]
    /\ res = Err
    /\ calls = NoCalls
    /\ rpc = "idle"

VersionIdle ==
    /\ tags = <<>>
    /\ chosen = None
    /\ vpc = "idle"

RunIdle ==
    /\ jobs = 0
    /\ images = <<>>
    /\ locked_images = <<>>
    /\ liveDigest = <<>>
    /\ upc = "idle"
    /\ outcome = "none"
    /\ task = <<>>
    /\ permit = {}
    /\ permits = 0
    /\ output = <<>>
    /\ digest_cache = <<>>
    /\ new_locked_images = <<>>
    /\ lock_file = <<>>
    /\ writes = 0
    /\ cache_writes = <<>>
    /\ stuck = None
    /\ cache_readers = {}
    /\ cache_writers = {}

LockIdle ==
    /\ lockOld = <<>>
    /\ lockNew = <<>>
    /\ diffs = <<>>
    /\ document = <<>>
    /\ loaded = [ok |-> FALSE]
    /\ lpc = "idle"

WalkIdle ==
    /\ repo = [listOk |-> FALSE, repoTags |-> <<>>]
    /\ target = ""
    /\ walked = [ok |-> FALSE, tags |-> <<>>, list |-> 0, tagpull |-> 0]
    /\ wpc = "idle"

ListIdle ==
    /\ registry_tags = <<>>
    /\ all_tags = <<>>
    /\ last = None
    /\ cursors = <<>>
    /\ tag_list = [ok |-> FALSE, tags |-> <<>>]
    /\ ppc = "idle"

AuthIdle ==
    /\ oci_auth = [type |-> "Anonymous"]
    /\ lib_auth = [type |-> "Anonymous"]
    /\ oci_back = [type |-> "Anonymous"]
    /\ apc = "idle"

VersionInit ==
    /\ tags \in TagLists
    /\ chosen = None
    /\ vpc = "input"
    /\ ResolveIdle
    /\ RunIdle
    /\ LockIdle
    /\ WalkIdle
    /\ ListIdle
    /\ AuthIdle

CanonicalVersionTag ==
    /\ vpc = "input"
    /\ chosen' = canonical_version_tag(tags)
    /\ vpc' = "done"
    /\ UNCHANGED <<tags, resolveVars, runVars, lockVars, walkVars, listVars, authVars>>

VersionNext == CanonicalVersionTag

SpecVersion == VersionInit /\ [][VersionNext]_vars

-----------------------------------------------------------------------------
(* Specification of the version extractor: one call of get_versioned_image *)
(* or of get_updated_versioned_image against every world                   *)

Digests == {"sha256:d1", "sha256:d2"}

V_1_0 == <<"1",".","0">>

V_1_1 == <<"1",".","1">>

V_1_2_3 == <<"1",".","2",".","3">>

V_latest == <<"l","a","t","e","s","t">>

\* image strings a project declares
DeclaredImages ==
    {"nginx:alpine", "docker.io/library/nginx:alpine", "ghcr.io/acme/app:1"}

\* image strings a lock entry holds: what Reference::to_string wrote, or the
\* placeholder of an entry loaded from the legacy schema
LockedImageStrings ==
    {"docker.io/library/nginx:alpine", "ghcr.io/acme/app:1", "<unknown>"}

RepoTags ==
    [name : {V_1_2_3, V_latest}, digest : {None} \cup {Some(d) : d \in Digests}]

RepoTagLists == UNION {[1..n -> RepoTags] : n \in 0..MaxRepoTags}

Worlds ==
    [pullOk : BOOLEAN, digest : Digests, configOk : BOOLEAN,
     label : {None, Some(V_1_1), Some(V_latest)},
     listOk : BOOLEAN, repoTags : RepoTagLists]

PrevImages ==
    [image : LockedImageStrings, version : {None, Some(V_1_0)},
     digest : Digests]

ResolveInit ==
    /\ world \in Worlds
    /\ \/ rimage \in {Some(i) : i \in {"nginx:alpine", "ghcr.io/acme/app:1"}}
          /\ prev = None
       \/ rimage = None
          /\ prev \in {Some(v) : v \in PrevImages}
    /\ res = Err
    /\ calls = NoCalls
    /\ rpc = "input"
    /\ VersionIdle
    /\ RunIdle
    /\ LockIdle
    /\ WalkIdle
    /\ ListIdle
    /\ AuthIdle

\* the call returns r
Returned(r) == res' = r.result /\ calls' = r.calls

GetVersionedImage ==
    /\ rpc = "input"
    /\ IsSome(rimage)
    /\ Returned(get_versioned_image(Unwrap(ParseReference(Unwrap(rimage))),
                                    world))
    /\ rpc' = "done"
    /\ UNCHANGED <<rimage, prev, world, versionVars, runVars, lockVars,
                   walkVars, listVars, authVars>>

GetUpdatedVersionedImage ==
    /\ rpc = "input"
    /\ IsSome(prev)
    /\ Returned(get_updated_versioned_image(Unwrap(prev), world))
    /\ rpc' = "done"
    /\ UNCHANGED <<rimage, prev, world, versionVars, runVars, lockVars,
                   walkVars, listVars, authVars>>

ResolveNext == GetVersionedImage \/ GetUpdatedVersionedImage

SpecResolve == ResolveInit /\ [][ResolveNext]_vars

-----------------------------------------------------------------------------
(* Specification of an update run: update_images (nirion-bin/src/lock.rs)  *)
(* with one task per image of the run, polled cooperatively by the         *)
(* FuturesUnordered of update_images.  A task stands at                    *)
(*   "waiting"   before semaphore.acquire() returns                        *)
(*   "acquired"  holding its permit, before cache.read() returns           *)
(*   "reading"   holding a read guard of the cache                         *)
(*   "calling"   in get_versioned_image / get_updated_versioned_image      *)
(*   "resolved"  with the VersionedImage, before cache.write() returns     *)
(*   "writing"   holding the write guard of the cache                      *)
(*   "finished"  returned, its output not yet taken by futures.next()      *)
(*   "joined"    its output taken                                          *)
(*   "cancelled" dropped with the FuturesUnordered before it returned      *)
(***************************************************************************)

Services == {"app.web", "app.db"}

\* the references the registry serves, as Reference::to_string writes them
Repositories == {"docker.io/library/nginx:alpine", "ghcr.io/acme/app:1"}

\* lock entries a lock file holds before the run: entries of the current
\* schema and an entry loaded from the legacy digest-only schema
LockedEntries ==
    {[image |-> i, version |-> Some(V_1_0), digest |-> "sha256:d1"] :
        i \in Repositories}
    \cup {[image |-> "<unknown>", version |-> None, digest |-> "sha256:d1"]}

\* BTreeMap: the maps from a subset of D to R
Maps(D, R) == UNION {[S -> R] : S \in SUBSET D}

\* BTreeMap::insert
Insert(map, k, v) ==
    [x \in DOMAIN map \cup {k} |-> IF x = k THEN v ELSE map[x]]

\* what the registry answers for a reference whose manifest has digest d: the
\* content of sha256:d2 carries the version label 1.1, the content of
\* sha256:d1 carries none and no other tag of the repository points to it;
\* whether the pull succeeds is decided per call
WorldOf(d, pullOk) ==
    [pullOk |-> pullOk, digest |-> d, configOk |-> TRUE,
     label |-> IF d = "sha256:d2" THEN Some(V_1_1) ELSE None,
     listOk |-> TRUE, repoTags |-> <<>>]

\* the arguments of update_images and the run's state before its first step
RunInputs ==
    /\ jobs \in 0..MaxJobs
    /\ images \in Maps(Services, DeclaredImages)
    /\ locked_images \in Maps(Services, LockedEntries)
    /\ liveDigest \in [Repositories -> Digests]
    /\ upc = "start"
    /\ outcome = "none"
    /\ task = [s \in DOMAIN images |-> "waiting"]
    /\ permit = {}
    /\ permits = jobs
    /\ output = <<>>
    /\ digest_cache = <<>>
    /\ new_locked_images = locked_images
    /\ lock_file = locked_images
    /\ writes = 0
    /\ cache_writes = <<>>
    /\ cache_readers = {}
    /\ cache_writers = {}
    /\ VersionIdle
    /\ ResolveIdle
    /\ LockIdle
    /\ WalkIdle
    /\ ListIdle
    /\ AuthIdle

\* a run in which every registry call returns
RunInit == RunInputs /\ stuck = None

\* lines 30-35: nothing to update
StartEmpty ==
    /\ upc = "start"
    /\ DOMAIN images = {}
    /\ upc' = "done"
    /\ outcome' = "nothing_to_do"
    /\ UNCHANGED <<jobs, images, locked_images, liveDigest, stuck, cache_readers,
                   cache_writers, cache_writes, task, permit,
                   permits, output, digest_cache, new_locked_images,
                   lock_file, writes, versionVars, resolveVars, lockVars, walkVars, listVars, authVars>>

\* the start of the run with the merged state begun empty instead of as a
\* clone of the loaded lock state
StartFromEmpty ==
    /\ upc = "start"
    /\ DOMAIN images # {}
    /\ upc' = "joining"
    /\ permits' = jobs
    /\ digest_cache' = <<>>
    /\ new_locked_images' = <<>>
    /\ UNCHANGED <<jobs, images, locked_images, liveDigest, stuck, cache_readers,
                   cache_writers,
                   cache_writes, outcome, task, permit, output, lock_file,
                   writes, versionVars, resolveVars, lockVars, walkVars, listVars, authVars>>

\* handle_lock: images.retain(|name, _| !locked_images.contains_key(name))
RetainMissing(project_images, locked) ==
    [s \in DOMAIN project_images \ DOMAIN locked |-> project_images[s]]

\* lines 55-101: the cache, the semaphore and one future per image
Start ==
    /\ upc = "start"
    /\ DOMAIN images # {}
    /\ upc' = "joining"
    /\ permits' = jobs
    /\ digest_cache' = <<>>
    /\ new_locked_images' = locked_images
    /\ UNCHANGED <<jobs, images, locked_images, liveDigest, stuck, cache_readers,
                   cache_writers, cache_writes, outcome, task,
                   permit, output, lock_file, writes, versionVars,
                   resolveVars, lockVars, walkVars, listVars, authVars>>

\* Semaphore::acquire with no permit check
AcquireUnchecked(s) ==
    /\ upc = "joining"
    /\ task[s] = "waiting"
    /\ permits' = permits - 1
    /\ permit' = permit \cup {s}
    /\ task' = [task EXCEPT ![s] = "acquired"]
    /\ UNCHANGED <<jobs, images, locked_images, liveDigest, stuck, cache_readers,
                   cache_writers, cache_writes, upc, outcome,
                   output, digest_cache, new_locked_images, lock_file,
                   writes, versionVars, resolveVars, lockVars, walkVars, listVars, authVars>>

\* line 73: semaphore.acquire() returns once a permit is free
Acquire(s) ==
    /\ upc = "joining"
    /\ task[s] = "waiting"
    /\ permits > 0
    /\ permits' = permits - 1
    /\ permit' = permit \cup {s}
    /\ task' = [task EXCEPT ![s] = "acquired"]
    /\ UNCHANGED <<jobs, images, locked_images, liveDigest, stuck, cache_readers,
                   cache_writers, cache_writes, upc, outcome,
                   output, digest_cache, new_locked_images, lock_file,
                   writes, versionVars, resolveVars, lockVars, walkVars, listVars, authVars>>

\* line 70: locked_images.get(&service)
IsLocked(s) == s \in DOMAIN locked_images

\* the cache key of a task: the image string of the current lock entry
\* (get_cached_updated_image) or the declared image (get_cached_image)
CacheKey(s) == IF IsLocked(s) THEN locked_images[s].image ELSE images[s]

\* the task returns: its permit is dropped with it
Finish(s, result) ==
    /\ task' = [task EXCEPT ![s] = "finished"]
    /\ output' = Insert(output, s, result)
    /\ permit' = permit \ {s}
    /\ permits' = permits + 1

\* lines 173 and 198: cache.read().await returns the read guard once no task
\* holds the write guard
ReadLock(s) ==
    /\ upc = "joining"
    /\ task[s] = "acquired"
    /\ cache_writers = {}
    /\ cache_readers' = cache_readers \cup {s}
    /\ task' = [task EXCEPT ![s] = "reading"]
    /\ UNCHANGED <<jobs, images, locked_images, liveDigest, stuck,
                   cache_writers, cache_writes, upc, outcome, permit,
                   permits, output, digest_cache, new_locked_images,
                   lock_file, writes, versionVars, resolveVars, lockVars,
                   walkVars, listVars, authVars>>

\* lines 172-177 and 197-202: the cache is read under the read guard, which
\* is dropped at the end of the block; a hit returns the cached value
CacheHit(s) ==
    /\ upc = "joining"
    /\ task[s] = "reading"
    /\ CacheKey(s) \in DOMAIN digest_cache
    /\ Finish(s, [ok |-> TRUE, value |-> digest_cache[CacheKey(s)]])
    /\ cache_readers' = cache_readers \ {s}
    /\ UNCHANGED <<jobs, images, locked_images, liveDigest, stuck,
                   cache_writers, cache_writes, upc, outcome,
                   digest_cache, new_locked_images, lock_file, writes,
                   versionVars, resolveVars, lockVars, walkVars, listVars, authVars>>

\* lines 179 (lock.rs) and 88 (unified.rs): a miss on an image string that is
\* no reference returns the parse error before any registry call
CacheMissBadReference(s) ==
    /\ upc = "joining"
    /\ task[s] = "reading"
    /\ CacheKey(s) \notin DOMAIN digest_cache
    /\ ParseReference(CacheKey(s)) = None
    /\ Finish(s, Err)
    /\ cache_readers' = cache_readers \ {s}
    /\ UNCHANGED <<jobs, images, locked_images, liveDigest, stuck,
                   cache_writers, cache_writes, upc, outcome,
                   digest_cache, new_locked_images, lock_file, writes,
                   versionVars, resolveVars, lockVars, walkVars, listVars, authVars>>

\* a miss that starts the resolution with the read guard still held
CacheMissKeepsGuard(s) ==
    /\ upc = "joining"
    /\ task[s] = "reading"
    /\ CacheKey(s) \notin DOMAIN digest_cache
    /\ ParseReference(CacheKey(s)) # None
    /\ task' = [task EXCEPT ![s] = "calling"]
    /\ UNCHANGED <<jobs, images, locked_images, liveDigest, stuck,
                   cache_readers, cache_writers, cache_writes, upc, outcome,
                   permit, permits, output, digest_cache, new_locked_images,
                   lock_file, writes, versionVars, resolveVars, lockVars,
                   walkVars, listVars, authVars>>

\* lines 172-180 and 197-205: a miss drops the read guard and starts the
\* resolution
CacheMiss(s) ==
    /\ upc = "joining"
    /\ task[s] = "reading"
    /\ CacheKey(s) \notin DOMAIN digest_cache
    /\ ParseReference(CacheKey(s)) # None
    /\ task' = [task EXCEPT ![s] = "calling"]
    /\ cache_readers' = cache_readers \ {s}
    /\ UNCHANGED <<jobs, images, locked_images, liveDigest, stuck,
                   cache_writers, cache_writes, upc, outcome,
                   permit, permits, output, digest_cache, new_locked_images,
                   lock_file, writes, versionVars, resolveVars, lockVars,
                   walkVars, listVars, authVars>>

\* the world task s meets: the live digest of its reference
WorldFor(image, pullOk) ==
    WorldOf(liveDigest[ReferenceToString(image)], pullOk)

\* lines 85-91 and 180, 204-205: what the resolution of task s returns when
\* its pull succeeds or fails
Resolution(s, pullOk) ==
    IF IsLocked(s)
    THEN get_updated_versioned_image(
             locked_images[s],
             WorldFor(Unwrap(ParseReference(CacheKey(s))), pullOk)).result
    ELSE get_versioned_image(
             Unwrap(ParseReference(CacheKey(s))),
             WorldFor(Unwrap(ParseReference(CacheKey(s))), pullOk)).result

\* the resolution returned the error r
Failed(s, r) == ~r.ok /\ Finish(s, Err)

\* the resolution returned the VersionedImage of r
Resolved(s, r) == r.ok /\ output' = Insert(output, s, r)

\* lines 180 and 204-205: the resolution fails and `?` returns the error
ResolveFails(s) ==
    /\ upc = "joining"
    /\ task[s] = "calling"
    /\ stuck # Some(s)
    /\ \E pullOk \in BOOLEAN : Failed(s, Resolution(s, pullOk))
    /\ UNCHANGED <<jobs, images, locked_images, liveDigest, stuck, cache_readers,
                   cache_writers, cache_writes, upc, outcome,
                   digest_cache, new_locked_images, lock_file, writes,
                   versionVars, resolveVars, lockVars, walkVars, listVars, authVars>>

\* lines 180 and 204-205: the resolution returns a VersionedImage
ResolveSucceeds(s) ==
    /\ upc = "joining"
    /\ task[s] = "calling"
    /\ stuck # Some(s)
    /\ \E pullOk \in BOOLEAN : Resolved(s, Resolution(s, pullOk))
    /\ task' = [task EXCEPT ![s] = "resolved"]
    /\ UNCHANGED <<jobs, images, locked_images, liveDigest, stuck, cache_readers,
                   cache_writers, cache_writes, upc, outcome,
                   permit, permits, digest_cache, new_locked_images,
                   lock_file, writes, versionVars, resolveVars, lockVars, walkVars, listVars, authVars>>

\* how often the run has inserted key k into the cache
Inserted(k) == IF k \in DOMAIN cache_writes THEN cache_writes[k] ELSE 0

\* lines 183 and 208: cache.write().await returns the write guard once no
\* task holds a guard of the cache
WriteLock(s) ==
    /\ upc = "joining"
    /\ task[s] = "resolved"
    /\ cache_writers = {}
    /\ cache_readers = {}
    /\ cache_writers' = cache_writers \cup {s}
    /\ task' = [task EXCEPT ![s] = "writing"]
    /\ UNCHANGED <<jobs, images, locked_images, liveDigest, stuck,
                   cache_readers, cache_writes, upc, outcome, permit,
                   permits, output, digest_cache, new_locked_images,
                   lock_file, writes, versionVars, resolveVars, lockVars,
                   walkVars, listVars, authVars>>

\* lines 182-187 and 207-212: the cache is written under the write guard,
\* the guard is dropped and the task returns its VersionedImage
CacheInsert(s) ==
    /\ upc = "joining"
    /\ task[s] = "writing"
    /\ digest_cache' = Insert(digest_cache, CacheKey(s), output[s].value)
    /\ cache_writes' = Insert(cache_writes, CacheKey(s),
                              Inserted(CacheKey(s)) + 1)
    /\ cache_writers' = cache_writers \ {s}
    /\ Finish(s, output[s])
    /\ UNCHANGED <<jobs, images, locked_images, liveDigest, stuck,
                   cache_readers, upc, outcome,
                   new_locked_images, lock_file, writes, versionVars,
                   resolveVars, lockVars, walkVars, listVars, authVars>>

\* lines 103-105: futures.next() yields an Ok output, which is merged
JoinOk(s) ==
    /\ upc = "joining"
    /\ task[s] = "finished"
    /\ output[s].ok
    /\ new_locked_images' = Insert(new_locked_images, s, output[s].value)
    /\ task' = [task EXCEPT ![s] = "joined"]
    /\ UNCHANGED <<jobs, images, locked_images, liveDigest, stuck, cache_readers,
                   cache_writers, cache_writes, upc, outcome,
                   permit, permits, output, digest_cache, lock_file, writes,
                   versionVars, resolveVars, lockVars, walkVars, listVars, authVars>>

\* line 104: futures.next() yields an Err output and `result?` returns it from
\* update_images; the FuturesUnordered is dropped with every task that has
\* not returned, and their permits and cache guards with them
JoinErr(s) ==
    /\ upc = "joining"
    /\ task[s] = "finished"
    /\ ~output[s].ok
    /\ upc' = "done"
    /\ outcome' = "error"
    /\ task' = [t \in DOMAIN task |->
                   IF t = s THEN "joined"
                   ELSE IF task[t] \in {"joined", "finished"} THEN task[t]
                   ELSE "cancelled"]
    /\ permit' = {}
    /\ permits' = permits + Cardinality(permit)
    /\ cache_readers' = {}
    /\ cache_writers' = {}
    /\ UNCHANGED <<jobs, images, locked_images, liveDigest, stuck,
                   cache_writes, output,
                   digest_cache, new_locked_images, lock_file, writes,
                   versionVars, resolveVars, lockVars, walkVars, listVars, authVars>>

\* futures.next() returned None: every task's output was taken
AllJoined == \A s \in DOMAIN task : task[s] = "joined"

\* lines 111-114: nothing changed
UpToDate ==
    /\ upc = "joining"
    /\ AllJoined
    /\ locked_images = new_locked_images
    /\ upc' = "done"
    /\ outcome' = "up_to_date"
    /\ UNCHANGED <<jobs, images, locked_images, liveDigest, stuck, cache_readers,
                   cache_writers, cache_writes, task, permit,
                   permits, output, digest_cache, new_locked_images,
                   lock_file, writes, versionVars, resolveVars, lockVars, walkVars, listVars, authVars>>

\* the lock file written as soon as the merged state differs, without
\* waiting for futures.next() to return None
WriteLockFileEarly ==
    /\ upc = "joining"
    /\ locked_images # new_locked_images
    /\ lock_file' = new_locked_images
    /\ writes' = writes + 1
    /\ upc' = "done"
    /\ outcome' = "written"
    /\ UNCHANGED <<jobs, images, locked_images, liveDigest, stuck, cache_readers,
                   cache_writers, cache_writes, task, permit,
                   permits, output, digest_cache, new_locked_images,
                   versionVars, resolveVars, lockVars, walkVars, listVars, authVars>>

\* lines 116-125: the new lock state is written
WriteLockFile ==
    /\ upc = "joining"
    /\ AllJoined
    /\ locked_images # new_locked_images
    /\ lock_file' = new_locked_images
    /\ writes' = writes + 1
    /\ upc' = "done"
    /\ outcome' = "written"
    /\ UNCHANGED <<jobs, images, locked_images, liveDigest, stuck, cache_readers,
                   cache_writers, cache_writes, task, permit,
                   permits, output, digest_cache, new_locked_images,
                   versionVars, resolveVars, lockVars, walkVars, listVars, authVars>>

Next ==
    \/ StartEmpty
    \/ Start
    \/ \E s \in DOMAIN images : Acquire(s)
    \/ \E s \in DOMAIN images : ReadLock(s)
    \/ \E s \in DOMAIN images : CacheHit(s)
    \/ \E s \in DOMAIN images : CacheMissBadReference(s)
    \/ \E s \in DOMAIN images : CacheMiss(s)
    \/ \E s \in DOMAIN images : ResolveFails(s)
    \/ \E s \in DOMAIN images : ResolveSucceeds(s)
    \/ \E s \in DOMAIN images : WriteLock(s)
    \/ \E s \in DOMAIN images : CacheInsert(s)
    \/ \E s \in DOMAIN images : JoinOk(s)
    \/ \E s \in DOMAIN images : JoinErr(s)
    \/ UpToDate
    \/ WriteLockFile

Spec == RunInit /\ [][Next]_vars

-----------------------------------------------------------------------------
\* a run in which the registry call of at most one image never returns
StuckInit ==
    /\ RunInputs
    /\ stuck \in {None} \cup {Some(s) : s \in DOMAIN images}

\* the task of s takes its next step when polled
TaskStep(s) ==
    /\ s \in DOMAIN images
    /\ \/ Acquire(s)
       \/ ReadLock(s)
       \/ CacheHit(s)
       \/ CacheMissBadReference(s)
       \/ CacheMiss(s)
       \/ ResolveFails(s)
       \/ ResolveSucceeds(s)
       \/ WriteLock(s)
       \/ CacheInsert(s)

\* futures.next() takes the output of a finished task
JoinStep == \E s \in DOMAIN images : JoinOk(s) \/ JoinErr(s)

\* the executor polls every task that can make progress, a registry call
\* that is not stuck returns, and update_images itself keeps running
Fairness ==
    /\ \A s \in Services : WF_vars(TaskStep(s))
    /\ WF_vars(JoinStep)
    /\ WF_vars(StartEmpty \/ Start \/ UpToDate \/ WriteLockFile)

SpecStuck == StuckInit /\ [][Next]_vars /\ Fairness

-----------------------------------------------------------------------------
(* The lock state (nirion-lib/src/lock.rs): diff, and the JSON document    *)
(* of the lock file.  A JSON value is a record with its type; a document   *)
(* is the map from the keys of its top-level object to their values.       *)

\* the keys of the lock states drawn, in the order a BTreeMap iterates them
LockKeys == <<"app.cache", "app.db", "app.web">>

LockKeySet == {LockKeys[i] : i \in 1..Len(LockKeys)}

LockStates == Maps(LockKeySet, LockedEntries)

\* DiffEntry
Added(service, new) == [kind |-> "Added", service |-> service, new |-> new]

Removed(service, old) == [kind |-> "Removed", service |-> service, old |-> old]

Updated(service, old, new) ==
    [kind |-> "Updated", service |-> service, old |-> old, new |-> new]

\* lines 84-101: the entries of other, in key order, against self
RECURSIVE DiffNew(_, _, _)
DiffNew(keys, self, other) ==
    IF keys = <<>> THEN <<>>
    ELSE (IF Head(keys) \notin DOMAIN other THEN <<>>
          ELSE IF Head(keys) \notin DOMAIN self
          THEN <<Added(Head(keys), other[Head(keys)])>>
          ELSE IF self[Head(keys)] # other[Head(keys)]
          THEN <<Updated(Head(keys), self[Head(keys)], other[Head(keys)])>>
          ELSE <<>>)
         \o DiffNew(Tail(keys), self, other)

\* lines 103-113: the entries of self, in key order, that other lacks
RECURSIVE DiffOld(_, _, _)
DiffOld(keys, self, other) ==
    IF keys = <<>> THEN <<>>
    ELSE (IF Head(keys) \in DOMAIN self /\ Head(keys) \notin DOMAIN other
          THEN <<Removed(Head(keys), self[Head(keys)])>>
          ELSE <<>>)
         \o DiffOld(Tail(keys), self, other)

\* diff without its second loop
diff_without_removed(self, other) == DiffNew(LockKeys, self, other)

diff(self, other) ==
    DiffNew(LockKeys, self, other) \o DiffOld(LockKeys, self, other)

\* serde_json values
JsonString(s) == [type |-> "string", value |-> s]

JsonNull == [type |-> "null"]

JsonObject(fields) == [type |-> "object", fields |-> fields]

\* Result::Ok
Ok(v) == [ok |-> TRUE, value |-> v]

\* a VersionedImage written as its digest alone
SerializeImageDigestOnly(v) == JsonString(v.digest)

\* #[derive(Serialize)] of VersionedImage: an object of three fields, the
\* version null when None
SerializeImage(v) ==
    JsonObject([image |-> JsonString(v.image),
                version |-> IF v.version = None THEN JsonNull
                            ELSE JsonString(Unwrap(v.version)),
                digest |-> JsonString(v.digest)])

\* impl Serialize for LockedImages: the map of the serialized entries
Serialize(state) == [k \in DOMAIN state |-> SerializeImage(state[k])]

\* the object j has the field f and it is a string
HasStringField(j, f) == f \in DOMAIN j.fields /\ j.fields[f].type = "string"

\* #[derive(Deserialize)] of VersionedImage: Some(value), or None on error;
\* image and digest must be strings, version may be a string, null or absent
DeserializeImage(j) ==
    IF /\ j.type = "object"
       /\ HasStringField(j, "image")
       /\ HasStringField(j, "digest")
       /\ "version" \in DOMAIN j.fields
             => j.fields["version"].type \in {"null", "string"}
    THEN Some([image |-> j.fields["image"].value,
               version |-> IF HasStringField(j, "version")
                           THEN Some(j.fields["version"].value) ELSE None,
               digest |-> j.fields["digest"].value])
    ELSE None

\* Repr::Full: every value is a VersionedImage
DeserializeFull(doc) ==
    IF \A k \in DOMAIN doc : IsSome(DeserializeImage(doc[k]))
    THEN Some([k \in DOMAIN doc |-> Unwrap(DeserializeImage(doc[k]))])
    ELSE None

\* Repr::DigestOnly: every value is a string
DeserializeDigestOnly(doc) ==
    IF \A k \in DOMAIN doc : doc[k].type = "string"
    THEN Some([k \in DOMAIN doc |-> doc[k].value])
    ELSE None

\* lines 25-40: the lock state of a digest-only map
FromDigestOnly(map) ==
    [k \in DOMAIN map |->
        [image |-> "<unknown>", version |-> None, digest |-> map[k]]]

\* Deserialize without the variant Repr::DigestOnly
DeserializeFullOnly(doc) ==
    IF IsSome(DeserializeFull(doc)) THEN Ok(Unwrap(DeserializeFull(doc)))
    ELSE Err

\* impl Deserialize for LockedImages: the untagged Repr tries Full, then
\* DigestOnly, each on the whole document, and fails when neither matches
Deserialize(doc) ==
    IF IsSome(DeserializeFull(doc)) THEN Ok(Unwrap(DeserializeFull(doc)))
    ELSE IF IsSome(DeserializeDigestOnly(doc))
    THEN Ok(FromDigestOnly(Unwrap(DeserializeDigestOnly(doc))))
    ELSE Err

\* the values of the documents drawn: digest strings, the objects of lock
\* entries, an object without the version field, and null
JsonValues ==
    {JsonString(d) : d \in Digests}
    \cup {SerializeImage(v) : v \in LockedEntries}
    \cup {JsonObject([image |-> JsonString("ghcr.io/acme/app:1"),
                      digest |-> JsonString("sha256:d2")]),
          JsonNull}

Documents == Maps(LockKeySet, JsonValues)

\* either two lock states, to diff them or to save and reload the first, or
\* a document to load
LockInit ==
    /\ \/ /\ lockOld \in LockStates
          /\ lockNew \in LockStates
          /\ document = <<>>
          /\ lpc = "states"
       \/ /\ lockOld = <<>>
          /\ lockNew = <<>>
          /\ document \in Documents
          /\ lpc = "document"
    /\ diffs = <<>>
    /\ loaded = Err
    /\ VersionIdle
    /\ ResolveIdle
    /\ RunIdle
    /\ WalkIdle
    /\ ListIdle
    /\ AuthIdle

\* old.diff(new)
Diff ==
    /\ lpc = "states"
    /\ diffs' = diff(lockOld, lockNew)
    /\ lpc' = "diffed"
    /\ UNCHANGED <<lockOld, lockNew, document, loaded, versionVars,
                   resolveVars, runVars, walkVars, listVars, authVars>>

\* serde_json::to_string_pretty(&locked_images) and fs::write
Save ==
    /\ lpc = "states"
    /\ document' = Serialize(lockOld)
    /\ lpc' = "saved"
    /\ UNCHANGED <<lockOld, lockNew, diffs, loaded, versionVars, resolveVars,
                   runVars, walkVars, listVars, authVars>>

\* serde_json::from_str::<LockedImages> of the lock file
Load ==
    /\ lpc \in {"saved", "document"}
    /\ loaded' = Deserialize(document)
    /\ lpc' = IF lpc = "saved" THEN "reloaded" ELSE "loaded"
    /\ UNCHANGED <<lockOld, lockNew, diffs, document, versionVars,
                   resolveVars, runVars, walkVars, listVars, authVars>>

LockNext == Diff \/ Save \/ Load

SpecLock == LockInit /\ [][LockNext]_vars

-----------------------------------------------------------------------------
(* Specification of the generic-OCI alias walk: one call of                *)
(* get_alias_oci_tags against every repository of at most MaxWalkTags tags *)

DigitChars == <<"1", "2", "3", "4", "5", "6", "7", "8", "9">>

\* the name of the i-th tag of the listing: v1, v2, ...
TagName(i) == <<"v", DigitChars[i]>>

\* the tag lists of a repository, in listing order: tag i is named vi and the
\* pull of its manifest gives a digest or fails (None)
WalkTagLists ==
    UNION {{[i \in 1..n |-> [name |-> TagName(i), digest |-> f[i]]] :
               f \in [1..n -> {None} \cup {Some(d) : d \in Digests}]} :
           n \in 0..MaxWalkTags}

WalkInit ==
    /\ repo \in [listOk : BOOLEAN, repoTags : WalkTagLists]
    /\ target \in Digests
    /\ walked = [ok |-> FALSE, tags |-> <<>>, list |-> 0, tagpull |-> 0]
    /\ wpc = "input"
    /\ VersionIdle
    /\ ResolveIdle
    /\ RunIdle
    /\ LockIdle
    /\ ListIdle
    /\ AuthIdle

GetAliasOciTags ==
    /\ wpc = "input"
    /\ walked' = get_alias_oci_tags(repo, target)
    /\ wpc' = "done"
    /\ UNCHANGED <<repo, target, versionVars, resolveVars, runVars, lockVars,
                   listVars, authVars>>

WalkNext == GetAliasOciTags

SpecWalk == WalkInit /\ [][WalkNext]_vars

-----------------------------------------------------------------------------
(* Specification of the paged tag listing: one call of list_all_tags       *)
(* against every registry of at most MaxRegistryTags tags. The tags of a   *)
(* registry are the numbers 1..N in registry order.                        *)

\* let page_size = 100
page_size == 100

\* the answer of the registry to list_tags(n, cursor): the next
\* min(n, remaining) tags after the cursor, from the start without cursor
\* (the tags of a registry are distinct)
list_tags(reg, n, cursor) ==
    LET start == IF cursor = None THEN 0
                 ELSE CHOOSE i \in 1..Len(reg) : reg[i] = Unwrap(cursor)
        stop  == IF start + n < Len(reg) THEN start + n ELSE Len(reg)
    IN  SubSeq(reg, start + 1, stop)

\* the loop ends after every page, short or full
PageReceived(count) == count <= page_size

\* if count < page_size { break }
ShortPage(count) == count < page_size

\* tags.last().cloned()
LastOf(ts) == IF ts = <<>> THEN None ELSE Some(ts[Len(ts)])

ListInit ==
    /\ registry_tags \in {[i \in 1..n |-> i] : n \in 0..MaxRegistryTags}
    /\ all_tags = <<>>
    /\ last = None
    /\ cursors = <<>>
    /\ tag_list = [ok |-> FALSE, tags |-> <<>>]
    /\ ppc = "paging"
    /\ VersionIdle
    /\ ResolveIdle
    /\ RunIdle
    /\ LockIdle
    /\ WalkIdle
    /\ AuthIdle

\* one turn of the loop whose request is answered
ListTagsPage ==
    /\ ppc = "paging"
    /\ LET page == list_tags(registry_tags, page_size, last)
       IN  /\ cursors' = Append(cursors, last)
           /\ last' = LastOf(page)
           /\ all_tags' = all_tags \o page
           /\ IF ShortPage(Len(page))
              THEN /\ tag_list' = [ok |-> TRUE, tags |-> all_tags \o page]
                   /\ ppc' = "done"
              ELSE UNCHANGED <<tag_list, ppc>>
    /\ UNCHANGED <<registry_tags, versionVars, resolveVars, runVars, lockVars,
                   walkVars, authVars>>

\* one turn of the loop whose request fails: `?` returns the error
ListTagsErr ==
    /\ ppc = "paging"
    /\ cursors' = Append(cursors, last)
    /\ tag_list' = [ok |-> FALSE, tags |-> <<>>]
    /\ ppc' = "done"
    /\ UNCHANGED <<registry_tags, all_tags, last, versionVars, resolveVars,
                   runVars, lockVars, walkVars, authVars>>

ListNext == ListTagsPage \/ ListTagsErr

\* the future is polled until it returns
SpecList == ListInit /\ [][ListNext]_vars /\ WF_vars(ListNext)

-----------------------------------------------------------------------------
(* Specification of the credential conversion: from_oci_auth of every OCI  *)
(* client credential, then to_oci_auth of the result                       *)

\* the strings credentials are made of
AuthStrings == {"alice", "bob", "carol", "hunter2", "s3cret", "t0ken"}

\* oci_client::secrets::RegistryAuth: Anonymous, Basic(username, password)
\* and Bearer(token); a tuple variant is the sequence of its fields
OciRegistryAuths ==
    {[type |-> "Anonymous"]}
    \cup {[type |-> "Basic", fields |-> <<u, p>>] : u, p \in AuthStrings}
    \cup {[type |-> "Bearer", fields |-> <<t>>] : t \in AuthStrings}

\* RegistryAuth::basic(username, password)
basic(username, password) ==
    [type |-> "Basic", username |-> username, password |-> password]

\* from_oci_auth: the pattern Basic(password, username) binds the first
\* field of the tuple to `password` and the second to `username`
from_oci_auth(auth) ==
    CASE auth.type = "Anonymous" -> [type |-> "Anonymous"]
      [] auth.type = "Basic" ->
            LET password == auth.fields[1]
                username == auth.fields[2]
            IN  basic(username, password)
      [] auth.type = "Bearer" -> [type |-> "Bearer", token |-> auth.fields[1]]

to_oci_auth(self) ==
    CASE self.type = "Anonymous" -> [type |-> "Anonymous"]
      [] self.type = "Basic" ->
            [type |-> "Basic", fields |-> <<self.username, self.password>>]
      [] self.type = "Bearer" ->
            [type |-> "Bearer", fields |-> <<self.token>>]

AuthInit ==
    /\ oci_auth \in OciRegistryAuths
    /\ lib_auth = [type |-> "Anonymous"]
    /\ oci_back = [type |-> "Anonymous"]
    /\ apc = "input"
    /\ VersionIdle
    /\ ResolveIdle
    /\ RunIdle
    /\ LockIdle
    /\ WalkIdle
    /\ ListIdle

FromOciAuth ==
    /\ apc = "input"
    /\ lib_auth' = from_oci_auth(oci_auth)
    /\ apc' = "converted"
    /\ UNCHANGED <<oci_auth, oci_back, versionVars, resolveVars, runVars,
                   lockVars, walkVars, listVars>>

ToOciAuth ==
    /\ apc = "converted"
    /\ oci_back' = to_oci_auth(lib_auth)
    /\ apc' = "back"
    /\ UNCHANGED <<oci_auth, lib_auth, versionVars, resolveVars, runVars,
                   lockVars, walkVars, listVars>>

AuthNext == FromOciAuth \/ ToOciAuth

SpecAuth == AuthInit /\ [][AuthNext]_vars

-----------------------------------------------------------------------------
(* Claims about the update run, checked under Spec *)

\* the largest and the smallest element of a non-empty set of numbers
SetMax(S) == CHOOSE x \in S : \A y \in S : y <= x

SetMin(S) == CHOOSE x \in S : \A y \in S : x <= y

\* the task of s has returned (its output may still wait for futures.next())
Completed(s) == task[s] \in {"finished", "joined"}

\* the task of s holds its permit: from semaphore.acquire() to its return
InFlight(s) ==
    task[s] \in {"acquired", "reading", "calling", "resolved", "writing"}

\* C1 (as stated): a failure while resolving one image does not abort the
\* others; when update_images reports the error, every image of the batch
\* has been resolved to completion (success or failure).
C1_FailureDoesNotAbortOthers ==
    (upc = "done" /\ outcome = "error") =>
        \A s \in DOMAIN task : Completed(s)

\* C2 (as stated): when the run reports a failure, every entry that was
\* resolved successfully is merged and persisted: the lock file holds it.
C2_SuccessesPersistedOnFailure ==
    (upc = "done" /\ outcome = "error") =>
        \A s \in DOMAIN task :
            (Completed(s) /\ output[s].ok) =>
                (s \in DOMAIN lock_file /\ lock_file[s] = output[s].value)

\* C3: at every moment at most `jobs` tasks hold a permit; a task with a
\* registry call in flight holds a permit; and a task that has returned
\* (with success or failure) or was dropped holds none.
C3_PermitsBoundInFlightTasks ==
    /\ Cardinality({s \in DOMAIN task : InFlight(s)}) <= jobs
    /\ Cardinality(permit) + permits = jobs
    /\ \A s \in DOMAIN task :
          /\ InFlight(s) => s \in permit
          /\ task[s] \in {"finished", "joined", "cancelled"} => s \notin permit

\* with one permit, a task failed and returned it and another task then
\* took it and has its registry call in flight
C3_Witness ==
    /\ jobs = 1
    /\ \E s, t \in DOMAIN task :
          /\ task[s] = "finished"
          /\ ~output[s].ok
          /\ task[t] = "calling"
          /\ t \in permit

\* the lock entry of s is current: its image parses and the registry serves
\* the digest the entry records
LiveDigestUnchanged(s) ==
    /\ s \in DOMAIN locked_images
    /\ ParseReference(locked_images[s].image) # None
    /\ liveDigest[ReferenceToString(
           Unwrap(ParseReference(locked_images[s].image)))]
          = locked_images[s].digest

\* C5 (as stated): an update run never changes the lock entry of an
\* already-locked service whose live digest equals its locked digest.
C5_UnchangedDigestKeepsEntry ==
    upc = "done" =>
        \A s \in DOMAIN locked_images :
            LiveDigestUnchanged(s) =>
                (s \in DOMAIN lock_file /\ lock_file[s] = locked_images[s])

\* C8 (as stated): update_images writes the lock file if and only if the
\* merged new lock state differs from the previous one; for an empty image
\* set nothing is written and no task exists to call the registry.
C8_WritesIffChanged ==
    upc = "done" =>
        /\ (writes > 0) <=> (new_locked_images # locked_images)
        /\ (DOMAIN images = {}) => (writes = 0 /\ DOMAIN task = {})

\* C9: the lock file is written at most once per run, and while any task has
\* not been joined nothing has been written: the file is as it was loaded.
C9_WrittenOnceAfterAllTasks ==
    /\ writes <= 1
    /\ (\E s \in DOMAIN task : task[s] # "joined") =>
          (writes = 0 /\ lock_file = locked_images)

\* a run of two tasks has written the lock file
C9_Witness ==
    /\ writes = 1
    /\ lock_file # locked_images
    /\ Cardinality(DOMAIN task) = 2
    /\ \A s \in DOMAIN task : task[s] = "joined"

\* C19 (as stated): within one update run each DigestCache key is written
\* at most once, for every interleaving of the tasks and every jobs value,
\* also when several services of the batch share an image reference.
C19_CacheKeyWrittenOnce ==
    \A k \in DOMAIN cache_writes : cache_writes[k] <= 1

\* the image strings the tasks of s and t resolve denote the same reference
SameReference(s, t) ==
    /\ ParseReference(CacheKey(s)) # None
    /\ ParseReference(CacheKey(s)) = ParseReference(CacheKey(t))

\* C20 (as stated): the DigestCache is keyed by the normalized image
\* reference: two services whose image strings denote the same reference use
\* the same cache key, so when they run one after the other (jobs = 1) and
\* the first has resolved, the second is served from the cache and makes no
\* registry call.
C20_SameReferenceSharesCacheEntry ==
    \A s, t \in DOMAIN task :
        (/\ jobs = 1
         /\ s # t
         /\ SameReference(s, t)
         /\ Completed(t)
         /\ output[t].ok
         /\ task[s] # "waiting")
            => /\ CacheKey(s) = CacheKey(t)
               /\ task[s] \notin {"calling", "resolved", "writing"}

\* the run ended without error
RunSucceeded == upc = "done" /\ outcome \in {"written", "up_to_date"}

\* C21: no task holds a guard of the DigestCache lock, read or write, while
\* its registry call is in flight: a guard is held only for the read-check
\* before the resolution and for the insert after it; and a writer excludes
\* every other writer and every reader.
C21_CacheLockNotHeldAcrossCalls ==
    /\ \A s \in DOMAIN task :
          /\ task[s] \in {"calling", "resolved"} =>
                (s \notin cache_readers /\ s \notin cache_writers)
          /\ s \in cache_readers => task[s] = "reading"
          /\ s \in cache_writers => task[s] = "writing"
    /\ Cardinality(cache_writers) <= 1
    /\ cache_writers # {} => cache_readers = {}

\* a task holds the write guard while the registry call of another task is
\* in flight
C21_Witness ==
    \E s, t \in DOMAIN task :
        /\ s \in cache_writers
        /\ task[s] = "writing"
        /\ task[t] = "calling"

\* C26 (as stated): after a successful update run, for every service of the
\* run's image map the image field of its lock entry denotes the image
\* reference declared for the service, also when the service was locked
\* under another reference before the run.
C26_EntryFollowsDeclaredImage ==
    RunSucceeded =>
        \A s \in DOMAIN images :
            /\ s \in DOMAIN lock_file
            /\ ParseReference(lock_file[s].image) = ParseReference(images[s])

\* C27: an update run leaves every lock entry whose service is not in the
\* run's image map unchanged and never removes a key from the lock state
\* (its diff holds no Removed entry); a run started by the lock command,
\* whose image map holds no locked service, alters no existing entry.
C27_RunKeepsOtherEntries ==
    /\ \A k \in DOMAIN locked_images :
          /\ k \in DOMAIN new_locked_images
          /\ k \in DOMAIN lock_file
          /\ k \notin DOMAIN images =>
                /\ new_locked_images[k] = locked_images[k]
                /\ lock_file[k] = locked_images[k]
    /\ \A k \in DOMAIN new_locked_images :
          k \in DOMAIN locked_images \cup DOMAIN images
    /\ images = RetainMissing(images, locked_images) =>
          \A k \in DOMAIN locked_images :
              /\ new_locked_images[k] = locked_images[k]
              /\ lock_file[k] = locked_images[k]

\* a run of the lock command has added the missing service to a lock state
\* that held another one, and written the file
C27_Witness ==
    /\ upc = "done"
    /\ outcome = "written"
    /\ images = RetainMissing(images, locked_images)
    /\ DOMAIN locked_images # {}
    /\ \E s \in DOMAIN images : s \in DOMAIN lock_file
    /\ \A k \in DOMAIN locked_images : lock_file[k] = locked_images[k]

\* C28 (as stated): a service whose lock entry was loaded from the legacy
\* digest-only schema (image "<unknown>") can be refreshed by an update run:
\* its task resolves it without error and it ends with a full entry.
C28_LegacyEntryRefreshed ==
    \A s \in DOMAIN task :
        (/\ s \in DOMAIN locked_images
         /\ locked_images[s].image = "<unknown>"
         /\ Completed(s))
            => /\ output[s].ok
               /\ output[s].value.image # "<unknown>"

-----------------------------------------------------------------------------
(* Claims about a run with a stuck registry call, checked under SpecStuck *)

\* the registry call of the task of s is in flight and will never return
StuckCalling(s) ==
    /\ stuck = Some(s)
    /\ s \in DOMAIN task
    /\ task[s] = "calling"

\* C16 (as stated): if the registry call of a single image never returns, the
\* task of every other image still eventually acquires a permit and runs to
\* completion, for every value of jobs.
C16_StuckImageDoesNotBlockOthers ==
    \A s, t \in Services :
        (s # t /\ StuckCalling(s) /\ t \in DOMAIN task)
            ~> (t \in DOMAIN task /\ Completed(t))

\* C29 (as stated): for every non-empty image set and every value of jobs,
\* 0 included, if every registry call eventually returns then every task
\* eventually acquires a permit and the update run eventually terminates.
C29_RunTerminatesForEveryJobs ==
    (stuck = None /\ DOMAIN images # {}) ~> (upc = "done")

-----------------------------------------------------------------------------
(* Claims about the lock state, checked under SpecLock *)

\* the positions of the diff entries that name key k
EntriesOf(k) == {i \in 1..Len(diffs) : diffs[i].service = k}

\* the diff holds exactly one entry for key k, and it is e
OnlyEntry(k, e) == \E i \in EntriesOf(k) : EntriesOf(k) = {i} /\ diffs[i] = e

\* C12: diff(old, new) holds exactly one Added entry for each key only in
\* new, exactly one Removed entry for each key only in old, exactly one
\* Updated entry with the old and the new value for each key in both with
\* different values, and no entry for a key whose values are equal: no key
\* is in two entries, and diff(S, S) is empty.
C12_DiffPartitionsKeys ==
    lpc = "diffed" =>
        /\ \A k \in LockKeySet :
              IF k \in DOMAIN lockNew /\ k \notin DOMAIN lockOld
              THEN OnlyEntry(k, Added(k, lockNew[k]))
              ELSE IF k \in DOMAIN lockOld /\ k \notin DOMAIN lockNew
              THEN OnlyEntry(k, Removed(k, lockOld[k]))
              ELSE IF k \in DOMAIN lockOld /\ lockOld[k] # lockNew[k]
              THEN OnlyEntry(k, Updated(k, lockOld[k], lockNew[k]))
              ELSE EntriesOf(k) = {}
        /\ \A i \in 1..Len(diffs) : diffs[i].service \in LockKeySet
        /\ lockOld = lockNew => diffs = <<>>

\* a diff with an added, an updated and a removed key
C12_Witness ==
    /\ lpc = "diffed"
    /\ \E a, u, r \in LockKeySet :
          /\ a \in DOMAIN lockNew /\ a \notin DOMAIN lockOld
          /\ r \in DOMAIN lockOld /\ r \notin DOMAIN lockNew
          /\ u \in DOMAIN lockOld /\ u \in DOMAIN lockNew
          /\ lockOld[u] # lockNew[u]
    /\ Len(diffs) = 3

\* C13: serializing a lock state in the current schema and deserializing the
\* result yields an equal lock state: the same keys, and for each key the
\* same image, version (None included) and digest; also for the empty state.
C13_SaveLoadRoundTrip ==
    lpc = "reloaded" => loaded = Ok(lockOld)

\* a lock state with an entry without version and an entry with a version
\* was saved and reloaded
C13_Witness ==
    /\ lpc = "reloaded"
    /\ loaded.ok
    /\ \E j, k \in DOMAIN lockOld :
          /\ lockOld[j].version = None
          /\ lockOld[k].version # None
          /\ loaded.value[j].version = None
          /\ loaded.value[k].version = lockOld[k].version

\* every value of the document is a plain string
LegacyDocument == \A k \in DOMAIN document : document[k].type = "string"

\* C14: a lock document in the legacy schema (every value a plain digest
\* string) loads into a lock state with one entry per key, whose digest is
\* that string, whose version is None and whose image is "<unknown>".
C14_LegacyDocumentLoads ==
    (lpc = "loaded" /\ LegacyDocument) =>
        /\ loaded.ok
        /\ DOMAIN loaded.value = DOMAIN document
        /\ \A k \in DOMAIN document :
              loaded.value[k] = [image |-> "<unknown>", version |-> None,
                                 digest |-> document[k].value]

\* a legacy document of two keys with different digests was loaded
C14_Witness ==
    /\ lpc = "loaded"
    /\ LegacyDocument
    /\ loaded.ok
    /\ \E j, k \in DOMAIN document : document[j] # document[k]

\* the value is an {image, version, digest} object of the current schema
CurrentValue(j) ==
    /\ j.type = "object"
    /\ DOMAIN j.fields = {"image", "version", "digest"}
    /\ j.fields["image"].type = "string"
    /\ j.fields["version"].type \in {"null", "string"}
    /\ j.fields["digest"].type = "string"

\* C15 (as stated): every lock document in which each value is, on its own,
\* either a plain digest string or an {image, version, digest} object loads
\* successfully, documents that mix both kinds included.
C15_MixedDocumentLoads ==
    (/\ lpc = "loaded"
     /\ \A k \in DOMAIN document :
           document[k].type = "string" \/ CurrentValue(document[k]))
        => loaded.ok

-----------------------------------------------------------------------------
(* Claims about the alias walk, checked under SpecWalk *)

\* the walk has returned from a repository whose listing works and whose
\* tags each map to a digest
WalkedFixedDigests ==
    /\ wpc = "done"
    /\ repo.listOk
    /\ \A i \in 1..Len(repo.repoTags) : repo.repoTags[i].digest # None

\* the positions, in reverse listing order, of the tags with the target digest
Matching == {i \in 1..Len(repo.repoTags) :
                Reverse(repo.repoTags)[i].digest = Some(target)}

\* the last position of the run of matching tags that starts at position i
RunEnd(i) == SetMax({j \in i..Len(repo.repoTags) : \A k \in i..j : k \in Matching})

\* C17 (as stated): in the alias walk each tag's manifest is pulled at most
\* once: the number of manifest pulls is the number of tags skipped before
\* the first match, plus the length of the matching run, plus one if a
\* mismatching tag ends the run (3 pulls for [v3, v2, v1] with v2, v1 matching).
C17_EachTagPulledOnce ==
    WalkedFixedDigests =>
        IF Matching = {} THEN walked.tagpull = Len(repo.repoTags)
        ELSE walked.tagpull =
                 (SetMin(Matching) - 1)
                 + (RunEnd(SetMin(Matching)) - SetMin(Matching) + 1)
                 + (IF RunEnd(SetMin(Matching)) < Len(repo.repoTags)
                    THEN 1 ELSE 0)

\* C18: for a repository whose tags each map to a fixed digest, the walk
\* returns exactly the maximal contiguous run of tags with the target digest
\* that starts at the first matching tag in reverse listing order: the tags
\* before it and every tag from the first mismatch after the run on are
\* left out; if no tag matches, every tag is visited and the empty list is
\* returned without error.
C18_ReturnsFirstMatchingRun ==
    WalkedFixedDigests =>
        /\ walked.ok
        /\ IF Matching = {}
           THEN walked.tags = <<>> /\ walked.tagpull = Len(repo.repoTags)
           ELSE walked.tags =
                    [i \in 1..(RunEnd(SetMin(Matching)) - SetMin(Matching) + 1) |->
                        Reverse(repo.repoTags)[SetMin(Matching) + i - 1].name]

\* a tag is skipped, the next one matches, the one after does not: of the
\* three tags only the second in reverse order is returned
C18_Witness ==
    /\ WalkedFixedDigests
    /\ Len(repo.repoTags) >= 3
    /\ 1 \notin Matching
    /\ 2 \in Matching
    /\ 3 \notin Matching
    /\ walked.tags = <<Reverse(repo.repoTags)[2].name>>

-----------------------------------------------------------------------------
(* Claims about the version scorer, checked under SpecVersion *)

\* the candidates that reach the scorer: the filtered, cleaned tags in input order
Candidates(ts) == CleanAll(FilterVersionTags(ts))

\* the positions of the candidates whose score is maximal
MaxScoreIdx(c) ==
    {i \in 1..Len(c) :
        \A j \in 1..Len(c) :
            canonical_version_score(c[j]) <= canonical_version_score(c[i])}

C7_NeverReturnsFloatingTag ==
    vpc = "done" =>
        (chosen = None \/ Unwrap(chosen) \notin NON_VERSION_TAGS)

\* C22 (as stated): canonical_version_tag is invariant under reordering of
\* its input: for every permutation of the tag list the returned value is
\* the one returned for the list itself.
C22_InvariantUnderReordering ==
    vpc = "done" =>
        \A f \in Permutations(1..Len(tags)) :
            canonical_version_tag([i \in 1..Len(tags) |-> tags[f[i]]]) = chosen

\* C23 (as stated): canonical_version_score awards the +50 semantic-version
\* bonus exactly when the part of the tag before the first `-` parses as a
\* semantic version after an optional leading `v` has been removed, so that
\* `v1.2.3` and `1.2.3` receive the same score.
C23_SemverBonusIgnoresLeadingV ==
    vpc = "done" =>
        \A i \in 1..Len(tags) :
            /\ tags[i] \notin NON_VERSION_TAGS =>
                  canonical_version_score(tags[i]) =
                      (IF SemverParses(normalized_version_prefix(tags[i]))
                       THEN 50 ELSE 0)
                      + version_depth(tags[i]) * 10
                      + (IF IsSome(suffix(tags[i])) THEN 5 ELSE 0)
                      + (IF IsSome(suffix(tags[i]))
                            /\ \E k \in 1..Len(Unwrap(suffix(tags[i]))) :
                                   Unwrap(suffix(tags[i]))[k] \in Digits
                         THEN 5 ELSE 0)
            /\ SemverParses(version_prefix(tags[i])) =>
                  canonical_version_score(<<"v">> \o tags[i])
                      = canonical_version_score(tags[i])

\* the tokens of a list, as a set
Tokens(list) == {list[i] : i \in 1..Len(list)}

\* C24 (as stated): strip_any_tag_prefix and strip_any_tag_suffix never
\* return an empty string for a non-empty tag, and whenever removing a
\* recognized token would leave nothing (the tag is equal to a recognized
\* prefix or suffix token) the original tag is returned unmodified.
C24_StripNeverEmptiesTag ==
    vpc = "done" =>
        \A i \in 1..Len(tags) :
            /\ tags[i] # <<>> =>
                  /\ strip_any_tag_prefix(tags[i], TAG_PREFIXES) # <<>>
                  /\ strip_any_tag_suffix(tags[i], TAG_SUFFIXES) # <<>>
            /\ tags[i] \in Tokens(TAG_PREFIXES) =>
                  strip_any_tag_prefix(tags[i], TAG_PREFIXES) = tags[i]
            /\ tags[i] \in Tokens(TAG_SUFFIXES) =>
                  strip_any_tag_suffix(tags[i], TAG_SUFFIXES) = tags[i]

-----------------------------------------------------------------------------
(* Claims about the version extractor, checked under SpecResolve *)

\* the update variant has re-pulled the manifest and found the digest of the
\* previous record
DigestUnchanged ==
    /\ rpc = "done"
    /\ IsSome(prev)
    /\ calls.pull = 1
    /\ world.pullOk
    /\ world.digest = Unwrap(prev).digest

\* C4: in the update variant, when the re-pulled digest equals the digest of
\* the previous record, the result is the entire previous record and no
\* config label is read, no tags are listed and no tag's manifest is pulled.
C4_UnchangedDigestShortCircuits ==
    DigestUnchanged =>
        /\ res = [ok |-> TRUE, value |-> Unwrap(prev)]
        /\ calls.label = 0
        /\ calls.list = 0
        /\ calls.tagpull = 0

\* the digest is unchanged although a full resolution would now derive
\* another version than the recorded one
C4_Witness ==
    /\ DigestUnchanged
    /\ IsSome(get_version_from_config(world))
    /\ get_version_from_config(world) # Unwrap(prev).version

\* C10 (as stated): once the image's manifest and config have been pulled and
\* parsed, get_version_and_digest returns the digest and no error, with
\* version None when neither the label nor the alias tags gave a version,
\* also when the alias-tag scan itself fails.
C10_AlwaysEndsWithDigest ==
    (rpc = "done" /\ IsSome(rimage) /\ world.pullOk /\ world.configOk) =>
        /\ res.ok
        /\ res.value.digest = world.digest
        /\ (/\ get_version_from_config(world) = None
            /\ ~IsSome(get_version_from_tags(
                          Unwrap(ParseReference(Unwrap(rimage))), world,
                          world.digest).version))
              => res.value.version = None

\* the config of the pulled image carries a version label that is no
\* floating tag
LabelAccepted ==
    /\ world.pullOk
    /\ world.configOk
    /\ IsSome(world.label)
    /\ Unwrap(world.label) \notin NON_VERSION_TAGS

\* C11: get_version_and_digest tries the config label first: when the pulled
\* config carries the version label with a value that is no floating tag,
\* that value is the version and no tags are listed and no tag's manifest is
\* pulled; the alias-tag scan starts only after the label was read and was
\* absent or a floating tag.
C11_LabelBeforeAliasScan ==
    (rpc = "done" /\ IsSome(rimage)) =>
        /\ LabelAccepted =>
              /\ res.ok
              /\ res.value.version = world.label
              /\ res.value.digest = world.digest
              /\ calls.label = 1
              /\ calls.list = 0
              /\ calls.tagpull = 0
        /\ (calls.list > 0 \/ calls.tagpull > 0) =>
              /\ calls.label = 1
              /\ ~LabelAccepted

\* the label is accepted although the repository lists a tag of the same
\* digest from which the alias scan would have derived another version
C11_Witness ==
    /\ rpc = "done"
    /\ IsSome(rimage)
    /\ LabelAccepted
    /\ world.listOk
    /\ \E i \in 1..Len(world.repoTags) :
          /\ world.repoTags[i].digest = Some(world.digest)
          /\ world.repoTags[i].name = V_1_2_3
    /\ res.ok
    /\ res.value.version = Some(V_1_1)


-----------------------------------------------------------------------------
(* Claims about the paged tag listing, checked under SpecList *)

\* the number of tags of the page the k-th request was answered with
PageLen(k) == Len(list_tags(registry_tags, page_size, cursors[k]))

\* what holds of a call that returned Ok against a registry of N tags
ListedAllPages ==
    (ppc = "done" /\ tag_list.ok) =>
        /\ Len(cursors) = (Len(registry_tags) \div page_size) + 1
        /\ tag_list.tags = registry_tags
        /\ cursors[1] = None
        /\ \A k \in 2..Len(cursors) :
              cursors[k] = Some(registry_tags[(k - 1) * page_size])
        /\ \A k \in 1..Len(cursors) :
              (PageLen(k) < page_size) <=> (k = Len(cursors))

\* C25: list_all_tags, run against a registry that holds N tags and answers
\* each request with the next min(page_size, remaining) tags after the
\* cursor, terminates after floor(N / page_size) + 1 requests and returns
\* all N tags, each once and in registry order; every request after the
\* first carries the last tag of the previous page as cursor, and the loop
\* stops at the first page shorter than page_size. While the loop runs it
\* never sends more requests than that, and the call always returns.
C25_ListAllTagsPages ==
    /\ [](ListedAllPages)
    /\ [](Len(cursors) <= (Len(registry_tags) \div page_size) + 1)
    /\ <>(ppc = "done")

\* a registry of exactly two full pages was listed with three requests, the
\* last one answered with an empty page
C25_Witness ==
    /\ ppc = "done"
    /\ tag_list.ok
    /\ Len(registry_tags) = 2 * page_size
    /\ Len(cursors) = 3
    /\ cursors[3] = Some(2 * page_size)

-----------------------------------------------------------------------------
(* Claims about the credential conversion, checked under SpecAuth *)

\* C30 (as stated): converting a credential of the OCI client to the
\* library's RegistryAuth and back is a lossless round trip: for every OCI
\* credential a, to_oci_auth(from_oci_auth(a)) equals a, with username and
\* password kept in their positions.
C30_AuthRoundTripLossless ==
    apc = "back" => oci_back = oci_auth

=============================================================================
